---------------------------- MODULE Spec2Model ----------------------------
(***************************************************************************)
(* A model of the MeruCountyWeb league application:                        *)
(*   - the generate_fixtures management command (Command.handle),          *)
(*   - Match.save and the Match admin's save_model,                        *)
(*   - TeamStandingsManager.get_standings.                                 *)
(* Teams are identified by their primary key (1, 2, ...); dates are whole  *)
(* days counted from the day the command is run.                           *)
(***************************************************************************)
EXTENDS Integers, Sequences, FiniteSets, Bags, TLC

VARIABLES
    team_table,          \* Team rows: the set of team primary keys
    match_table,         \* Match rows in primary-key order
    goal_table,          \* Goal rows: a bag of [match, team]
    pc,                  \* position of Command.handle: idle, leg1, save, done
                         \* (done: handle has just returned or raised)
    num_actual_teams,    \* handle's locals
    teams,
    total_rounds,
    round_num,
    current_datetime,
    all_matches_to_save,
    count,
    raised,              \* the exception handle left to its caller, or "none"
    stdout,              \* what this run of handle wrote: the warning and
                         \* the lines of the save phase (the fixture listing
                         \* of phases 1 and 2 is left out)
    connection,          \* "open" or "closed" (connection.close())
    table_before,        \* the match table as it was when this run started
    save_calls,          \* match.save() calls this run attempted
    ops,                 \* command runs started plus matches added by hand
    changes,             \* uses of the admin's change form so far
    standings            \* the last result of get_standings

vars == <<team_table, match_table, goal_table, pc, num_actual_teams, teams,
          total_rounds, round_num, current_datetime, all_matches_to_save,
          count, raised, stdout, connection, table_before, save_calls, ops,
          changes, standings>>

genLocals == <<num_actual_teams, teams, total_rounds, round_num,
               current_datetime, all_matches_to_save, count>>

---------------------------------------------------------------------------
(* Bounds of the model *)

MaxTeams == 5            \* teams the admin registers
MaxOps == 2              \* runs of generate_fixtures plus matches added by hand
MaxChanges == 2          \* uses of the admin's change form
MaxEditPk == 1           \* the change form is used on matches 1..MaxEditPk
MaxStTeams == 3          \* teams of the tables get_standings is applied to
MaxScore == 1            \* largest score in those tables

(* Program constants *)

days_between_weeks == 7
today == 0
MinTeams == 2
ProgressEvery == 10

\* The bye slot: None in the teams list
None == 0

\* Exceptions match.save() can raise
StorageErrors == {"IntegrityError", "OperationalError"}

---------------------------------------------------------------------------
(* models.py *)

\* Match.save: is_played is recomputed from the scores of the object
SaveIsPlayed(home_score, away_score) == home_score > 0 \/ away_score > 0

\* A Match object as constructed by Match(home_team=, away_team=,
\* match_date=, is_played=): scores take the field default 0
MatchObj(h, a, d, p) ==
    [home_team |-> h, away_team |-> a, match_date |-> d,
     home_score |-> 0, away_score |-> 0, is_played |-> p]

\* The row Match.save writes for object m
MatchSaved(m) ==
    [m EXCEPT !.is_played = SaveIsPlayed(m.home_score, m.away_score)]

\* A set of primary keys as a list in ascending order (order_by('pk'))
RECURSIVE SortedPks(_)
SortedPks(S) ==
    IF S = {} THEN <<>>
    ELSE LET m == CHOOSE x \in S : \A y \in S : x <= y
         IN <<m>> \o SortedPks(S \ {m})

\* The standings variable before get_standings has been called
NotCalled == [called |-> FALSE, rows |-> <<>>]

\* Team.standings_manager's queryset: Team's Meta orders it by name. Teams
\* are named so that name order is primary-key order.
TeamsInOrder(team_set) == SortedPks(team_set)

\* played_home | played_away: the rows of the table with is_played true
\* and the team at home or away, each row once
AllPlayed(team, table) ==
    LET Mine(m) == \/ (m.home_team = team /\ m.is_played)
                   \/ (m.away_team = team /\ m.is_played)
    IN SelectSeq(table, Mine)

MutPlayedCount(team, table) ==
    LET Home(m) == m.home_team = team /\ m.is_played
        Away(m) == m.away_team = team /\ m.is_played
    IN Len(SelectSeq(table, Home)) + Len(SelectSeq(table, Away))

\* all_played.count()
PlayedCount(team, table) == Len(AllPlayed(team, table))

MutOrient(m, team) == [gf |-> m.home_score, ga |-> m.away_score]

\* gf, ga of a match from the team's side
Orient(m, team) ==
    IF m.home_team = team
    THEN [gf |-> m.home_score, ga |-> m.away_score]
    ELSE [gf |-> m.away_score, ga |-> m.home_score]

\* One iteration of `for match in all_played`
Accumulate(stats, m, team) ==
    LET o == Orient(m, team)
        s1 == [stats EXCEPT !.GF = @ + o.gf, !.GA = @ + o.ga]
    IN IF o.gf > o.ga
       THEN [s1 EXCEPT !.W = @ + 1, !.Pts = @ + 3]
       ELSE IF o.gf = o.ga
            THEN [s1 EXCEPT !.D = @ + 1, !.Pts = @ + 1]
            ELSE [s1 EXCEPT !.L = @ + 1]

RECURSIVE AccumulateAll(_, _, _)
AccumulateAll(stats, played, team) ==
    IF played = <<>> THEN stats
    ELSE AccumulateAll(Accumulate(stats, Head(played), team),
                       Tail(played), team)

\* The stats dict of one team, GD set after the loop
TeamStats(team, table) ==
    LET stats == [team |-> team, P |-> PlayedCount(team, table),
                  W |-> 0, D |-> 0, L |-> 0,
                  GF |-> 0, GA |-> 0, GD |-> 0, Pts |-> 0]
        done == AccumulateAll(stats, AllPlayed(team, table), team)
    IN [done EXCEPT !.GD = done.GF - done.GA]

\* (Pts, GD, GF) of x is smaller than that of y, as tuples compare
KeyLess(x, y) ==
    \/ x.Pts < y.Pts
    \/ x.Pts = y.Pts /\ x.GD < y.GD
    \/ x.Pts = y.Pts /\ x.GD = y.GD /\ x.GF < y.GF

\* x put into a list sorted descending, behind every row that is not smaller
RECURSIVE InsertDesc(_, _)
InsertDesc(x, sorted) ==
    IF sorted = <<>> THEN <<x>>
    ELSE IF KeyLess(Head(sorted), x)
         THEN <<x>> \o sorted
         ELSE <<Head(sorted)>> \o InsertDesc(x, Tail(sorted))

\* x put into a list sorted ascending, behind every row that is not larger
RECURSIVE InsertAsc(_, _)
InsertAsc(x, sorted) ==
    IF sorted = <<>> THEN <<x>>
    ELSE IF KeyLess(x, Head(sorted))
         THEN <<x>> \o sorted
         ELSE <<Head(sorted)>> \o InsertAsc(x, Tail(sorted))

RECURSIVE SortAsc(_, _)
SortAsc(rows, sorted) ==
    IF rows = <<>> THEN sorted
    ELSE SortAsc(Tail(rows), InsertAsc(Head(rows), sorted))

\* An ascending sort that is then reversed
MutSortStandings(rows) ==
    LET asc == SortAsc(rows, <<>>)
    IN [i \in 1..Len(asc) |-> asc[Len(asc) + 1 - i]]

RECURSIVE SortDesc(_, _)
SortDesc(rows, sorted) ==
    IF rows = <<>> THEN sorted
    ELSE SortDesc(Tail(rows), InsertDesc(Head(rows), sorted))

\* standings.sort(key=lambda x: (x['Pts'], x['GD'], x['GF']), reverse=True):
\* list.sort is stable, and with reverse=True rows with equal keys keep
\* their original order
SortStandings(rows) == SortDesc(rows, <<>>)

\* TeamStandingsManager.get_standings
get_standings(team_set, table) ==
    LET order == TeamsInOrder(team_set)
    IN SortStandings([i \in 1..Len(order) |-> TeamStats(order[i], table)])

\* views.standings calls get_standings; the tables are read, not written
GetStandings ==
    /\ ~standings.called
    /\ standings' = [called |-> TRUE,
                     rows |-> get_standings(team_table, match_table)]
    /\ UNCHANGED <<team_table, match_table, goal_table, pc, genLocals, raised,
                   stdout, connection, table_before, save_calls, ops, changes>>

---------------------------------------------------------------------------
(* generate_fixtures.py *)

start_date == today + 1

MutTooFewTeams(n) == n < MinTeams - 1

TooFewTeams(n) == n < MinTeams

\* if num_actual_teams % 2 != 0: teams = all_teams + [None]
WithBye(all_teams) ==
    IF Len(all_teams) % 2 /= 0 THEN Append(all_teams, None) ELSE all_teams

MutIsRealPairing(team1, team2) == team1 /= None

\* if team1 and team2
IsRealPairing(team1, team2) == team1 /= None /\ team2 /= None

\* The matches one round appends: teams[i] against teams[i + half_size]
RoundMatches(ts, date) ==
    LET half_size == Len(ts) \div 2
        pairing == [i \in 1..half_size |->
                       MatchObj(ts[i], ts[i + half_size], date, FALSE)]
        Real(m) == IsRealPairing(m.home_team, m.away_team)
    IN SelectSeq(pairing, Real)

\* teams.insert(1, teams.pop())
Rotate(ts) ==
    <<ts[1], ts[Len(ts)]>> \o SubSeq(ts, 2, Len(ts) - 1)

MutReturnDate(d, rounds) == d + (rounds - 1) * days_between_weeks

\* return_datetime = match.match_date + timedelta(days=total_rounds * 7)
ReturnDate(d, rounds) == d + rounds * days_between_weeks

\* The second leg: one reversed match per first-leg match, in order
Leg2(leg1, rounds) ==
    [i \in 1..Len(leg1) |->
        MatchObj(leg1[i].away_team, leg1[i].home_team,
                 ReturnDate(leg1[i].match_date, rounds), FALSE)]

MutHasSecondLeg(n) == n >= 2

\* if num_actual_teams > 2: the second leg is generated
HasSecondLeg(n) == n > 2

MutNextToSave(all, n) == all[Len(all) - n]

\* The match the save loop saves after n successful saves
NextToSave(all, n) == all[n + 1]

MutSaveErrorReport(e, n) ==
    [line |-> "CRITICAL SAVE ERROR", error |-> e, count |-> n]

\* self.stdout.write(self.style.ERROR(f"\nCRITICAL SAVE ERROR: {e}"))
SaveErrorReport(e, n) == [line |-> "CRITICAL SAVE ERROR", error |-> e]

ProgressReport(n, total) == [line |-> "Progress", count |-> n, total |-> total]

SuccessReport(n) == [line |-> "Successfully created", count |-> n]

CommitReport(total) == [line |-> "Committing", total |-> total]

WarningReport == [line |-> "WARNING: Existing matches found"]

\* handle, lines 10-53: read the teams, refuse fewer than two, seat them
HandleStart ==
    /\ pc \in {"idle", "done"}
    /\ ops < MaxOps
    /\ ops' = ops + 1
    /\ table_before' = match_table
    /\ save_calls' = 0
    /\ connection' = "open"
    /\ LET all_teams == SortedPks(team_table)
       IN /\ num_actual_teams' = Len(all_teams)
          /\ IF TooFewTeams(Len(all_teams))
             THEN /\ raised' = "CommandError"
                  /\ stdout' = <<>>
                  /\ pc' = "done"
                  /\ teams' = <<>>
                  /\ total_rounds' = 0
             ELSE /\ raised' = "none"
                  /\ teams' = WithBye(all_teams)
                  /\ total_rounds' = Len(WithBye(all_teams)) - 1
                  /\ stdout' = IF Len(match_table) > 0
                               THEN <<WarningReport>> ELSE <<>>
                  /\ pc' = "leg1"
    /\ round_num' = 0
    /\ current_datetime' = start_date
    /\ all_matches_to_save' = <<>>
    /\ count' = 0
    /\ UNCHANGED <<team_table, match_table, goal_table, changes,
                   standings>>

\* handle, lines 55-78: one iteration of the round loop
GenRound ==
    /\ pc = "leg1"
    /\ round_num < total_rounds
    /\ LET date == IF round_num > 0
                   THEN current_datetime + days_between_weeks
                   ELSE current_datetime
       IN /\ current_datetime' = date
          /\ all_matches_to_save' =
                 all_matches_to_save \o RoundMatches(teams, date)
    /\ teams' = Rotate(teams)
    /\ round_num' = round_num + 1
    /\ UNCHANGED <<team_table, match_table, goal_table, pc, num_actual_teams,
                   total_rounds, count, raised, stdout, connection,
                   table_before, save_calls, ops, changes, standings>>

\* handle, lines 82-104: the second leg, then the save loop is entered
GenLeg2 ==
    /\ pc = "leg1"
    /\ round_num = total_rounds
    /\ LET all == IF HasSecondLeg(num_actual_teams)
                  THEN all_matches_to_save
                           \o Leg2(all_matches_to_save, total_rounds)
                  ELSE all_matches_to_save
       IN /\ all_matches_to_save' = all
          /\ stdout' = Append(stdout, CommitReport(Len(all)))
    /\ count' = 0
    /\ pc' = "save"
    /\ UNCHANGED <<team_table, match_table, goal_table, num_actual_teams,
                   teams, total_rounds, round_num, current_datetime, raised,
                   connection, table_before, save_calls, ops, changes,
                   standings>>

\* handle, lines 106-110: match.save() succeeds
SaveOk ==
    /\ pc = "save"
    /\ count < Len(all_matches_to_save)
    /\ LET match == NextToSave(all_matches_to_save, count)
       IN match_table' = Append(match_table, MatchSaved(match))
    /\ save_calls' = save_calls + 1
    /\ count' = count + 1
    /\ stdout' = IF (count + 1) % ProgressEvery = 0
                 THEN Append(stdout, ProgressReport(count + 1,
                                                    Len(all_matches_to_save)))
                 ELSE stdout
    /\ UNCHANGED <<team_table, goal_table, pc, num_actual_teams, teams,
                   total_rounds, round_num, current_datetime,
                   all_matches_to_save, raised, connection, table_before,
                   ops, changes, standings>>

\* handle, lines 106-114: match.save() raises, the except clause returns
SaveFail ==
    /\ pc = "save"
    /\ count < Len(all_matches_to_save)
    /\ save_calls' = save_calls + 1
    /\ \E e \in StorageErrors :
           stdout' = Append(stdout, SaveErrorReport(e, count))
    /\ connection' = "closed"
    /\ pc' = "done"
    /\ UNCHANGED <<team_table, match_table, goal_table, num_actual_teams,
                   teams, total_rounds, round_num, current_datetime,
                   all_matches_to_save, count, raised, table_before, ops,
                   changes, standings>>

\* handle, lines 116-120: every match is saved
Finish ==
    /\ pc = "save"
    /\ count = Len(all_matches_to_save)
    /\ connection' = "closed"
    /\ stdout' = Append(stdout, SuccessReport(count))
    /\ pc' = "done"
    /\ UNCHANGED <<team_table, match_table, goal_table, num_actual_teams,
                   teams, total_rounds, round_num, current_datetime,
                   all_matches_to_save, count, raised, table_before,
                   save_calls, ops, changes, standings>>

---------------------------------------------------------------------------
(* admin.py *)

\* admin.site.register(Team): a team is added, its pk the next integer
AdminAddTeam ==
    /\ pc \in {"idle", "done"}
    /\ Cardinality(team_table) < MaxTeams
    /\ team_table' = team_table \cup {Cardinality(team_table) + 1}
    /\ pc' = "idle"
    /\ UNCHANGED <<match_table, goal_table, genLocals, raised, stdout,
                   connection, table_before, save_calls, ops, changes,
                   standings>>

\* MatchAdmin.save_model, change=False: the add form's match is saved;
\* it has no goals yet, so the scores stay 0
AdminAddMatch ==
    /\ pc \in {"idle", "done"}
    /\ ops < MaxOps
    /\ ops' = ops + 1
    /\ \E h \in team_table, a \in team_table, p \in BOOLEAN :
           match_table' = Append(match_table,
                                 MatchSaved(MatchObj(h, a, start_date, p)))
    /\ pc' = "idle"
    /\ UNCHANGED <<team_table, goal_table, genLocals, raised, stdout,
                   connection, table_before, save_calls, changes, standings>>

\* obj.goals.filter(team=t).count() for the match with primary key pk
GoalCount(pk, t) == CopiesIn([match |-> pk, team |-> t], goal_table)

\* What the change form's Goal inline (GoalInline) may do when the related
\* objects are saved: nothing, add a goal for a side, delete a goal
GoalEdits(pk, obj) ==
    {goal_table}
    \cup {goal_table (+) SetToBag({[match |-> pk, team |-> t]}) :
             t \in {obj.home_team, obj.away_team}}
    \cup {goal_table (-) SetToBag({[match |-> pk, team |-> t]}) :
             t \in {u \in {obj.home_team, obj.away_team} :
                       GoalCount(pk, u) > 0}}

\* MatchAdmin.save_model on the change form of match pk, then the inlines:
\* the object (scores read-only, so as stored) goes through Match.save;
\* the goals are recounted and, if the scores differ, written with a bulk
\* update of home_score and away_score alone; the Goal inline is saved last
AdminChangeMatch ==
    /\ pc \in {"idle", "done"}
    /\ changes < MaxChanges
    /\ changes' = changes + 1
    /\ \E pk \in DOMAIN match_table \cap 1..MaxEditPk, p \in BOOLEAN :
          LET obj == MatchSaved([match_table[pk] EXCEPT !.is_played = p])
              home_goals == GoalCount(pk, obj.home_team)
              away_goals == GoalCount(pk, obj.away_team)
              row == IF obj.home_score /= home_goals
                        \/ obj.away_score /= away_goals
                     THEN [obj EXCEPT !.home_score = home_goals,
                                      !.away_score = away_goals]
                     ELSE obj
          IN /\ match_table' = [match_table EXCEPT ![pk] = row]
             /\ goal_table' \in GoalEdits(pk, obj)
    /\ pc' = "idle"
    /\ UNCHANGED <<team_table, genLocals, raised, stdout, connection,
                   table_before, save_calls, ops, standings>>

---------------------------------------------------------------------------

Init ==
    /\ team_table = {}
    /\ match_table = <<>>
    /\ goal_table = EmptyBag
    /\ pc = "idle"
    /\ num_actual_teams = 0
    /\ teams = <<>>
    /\ total_rounds = 0
    /\ round_num = 0
    /\ current_datetime = start_date
    /\ all_matches_to_save = <<>>
    /\ count = 0
    /\ raised = "none"
    /\ stdout = <<>>
    /\ connection = "open"
    /\ table_before = <<>>
    /\ save_calls = 0
    /\ ops = 0
    /\ changes = 0
    /\ standings = NotCalled

NextGen ==
    \/ AdminAddTeam
    \/ AdminAddMatch
    \/ HandleStart
    \/ GenRound
    \/ GenLeg2
    \/ SaveOk
    \/ SaveFail
    \/ Finish

SpecGen == Init /\ [][NextGen]_vars

Next ==
    \/ NextGen
    \/ AdminChangeMatch

Spec == Init /\ [][Next]_vars

\* The rows a table handed to get_standings is made of
StRows(team_set) ==
    [home_team : team_set, away_team : team_set, match_date : {start_date},
     home_score : 0..MaxScore, away_score : 0..MaxScore, is_played : BOOLEAN]

\* get_standings on its own: a team table of 0..MaxStTeams teams and a match
\* table of zero, one or two matches among them
InitStandings ==
    /\ \E n \in 0..MaxStTeams :
          /\ team_table = 1..n
          /\ match_table \in {<<>>}
                 \cup {<<m>> : m \in StRows(1..n)}
                 \cup {<<m1, m2>> : m1 \in StRows(1..n), m2 \in StRows(1..n)}
    /\ goal_table = EmptyBag
    /\ pc = "idle"
    /\ num_actual_teams = 0
    /\ teams = <<>>
    /\ total_rounds = 0
    /\ round_num = 0
    /\ current_datetime = start_date
    /\ all_matches_to_save = <<>>
    /\ count = 0
    /\ raised = "none"
    /\ stdout = <<>>
    /\ connection = "open"
    /\ table_before = <<>>
    /\ save_calls = 0
    /\ ops = 0
    /\ changes = 0
    /\ standings = NotCalled

NextStandings == GetStandings

SpecStandings == InitStandings /\ [][NextStandings]_vars

---------------------------------------------------------------------------
(* Properties of generate_fixtures, checked under SpecGen *)

\* The run has generated its whole list (the save loop is entered or over)
Generated == pc \in {"save", "done"} /\ raised = "none"

\* A save of this run raised
SaveFailed == pc = "done" /\ save_calls = count + 1

\* Indexes of the generated matches with home h and away a
Meetings(h, a) ==
    {i \in DOMAIN all_matches_to_save :
        /\ all_matches_to_save[i].home_team = h
        /\ all_matches_to_save[i].away_team = a}

\* N' of the claims: N, or N + 1 when N is odd
WorkingSize(n) == IF n % 2 = 1 THEN n + 1 ELSE n

\* C1: for N >= 3 teams the generated list (leg 1 then leg 2) holds, for
\* every two distinct teams A and B, exactly one match with A at home and
\* B away (so every unordered pair meets exactly twice, once each way).
C1_DoubleRoundRobin ==
    (Generated /\ num_actual_teams >= 3) =>
        \A a \in team_table, b \in team_table :
            a /= b => Cardinality(Meetings(a, b)) = 1

\* C2: for odd N >= 3 the working list has N + 1 seats, there are N rounds
\* and after r of them leg 1 holds r * (N - 1) / 2 matches (each round adds
\* exactly (N - 1) / 2); for every N > 2 leg 1 ends with N * (N - 1) / 2
\* matches, the whole list has N * (N - 1), and a run without a failed save
\* adds exactly N * (N - 1) rows to the match table.
C2_MatchCounts ==
    LET n == num_actual_teams
    IN /\ (pc = "leg1" /\ n >= 3 /\ n % 2 = 1) =>
              /\ Len(teams) = n + 1
              /\ total_rounds = n
              /\ Len(all_matches_to_save) = round_num * ((n - 1) \div 2)
       /\ (pc = "leg1" /\ n > 2 /\ round_num = total_rounds) =>
              2 * Len(all_matches_to_save) = n * (n - 1)
       /\ (Generated /\ n > 2) =>
              Len(all_matches_to_save) = n * (n - 1)
       /\ (pc = "done" /\ raised = "none" /\ ~SaveFailed /\ n > 2) =>
              /\ count = n * (n - 1)
              /\ Len(match_table) = Len(table_before) + n * (n - 1)

C2_Witness ==
    /\ pc = "done" /\ raised = "none" /\ ~SaveFailed
    /\ num_actual_teams = 5
    /\ Len(match_table) = Len(table_before) + 20

\* C4: a run that finds 0 or 1 teams ends with CommandError, attempts no
\* save, and leaves the match table as it was before the run.
C4_TooFewTeams ==
    (pc = "done" /\ num_actual_teams < 2) =>
        /\ raised = "CommandError"
        /\ save_calls = 0
        /\ match_table = table_before

C4_Witness ==
    /\ pc = "done" /\ num_actual_teams = 1
    /\ raised = "CommandError"
    /\ Len(match_table) = 1

\* C5: during and after the save loop the match table is the table before
\* the run followed by the first `count` generated matches, in generation
\* order (leg 1 round by round, then the reverse of each leg-1 match in the
\* same order); a failed save is the last one attempted, and the matches
\* saved before it stay.
C5_SavePrefix ==
    (pc \in {"save", "done"}) =>
        /\ count <= Len(all_matches_to_save)
        /\ match_table = table_before \o SubSeq(all_matches_to_save, 1, count)
        /\ save_calls \in {count, count + 1}
        /\ save_calls = count + 1 => pc = "done"
        /\ num_actual_teams > 2 =>
              LET half == Len(all_matches_to_save) \div 2
              IN \A i \in 1..half :
                    /\ all_matches_to_save[half + i].home_team
                           = all_matches_to_save[i].away_team
                    /\ all_matches_to_save[half + i].away_team
                           = all_matches_to_save[i].home_team
                    /\ i > 1 => all_matches_to_save[i - 1].match_date
                                    <= all_matches_to_save[i].match_date

C5_Witness ==
    /\ SaveFailed
    /\ count >= 2
    /\ count + 1 < Len(all_matches_to_save)
    /\ Len(match_table) = Len(table_before) + count

\* C6 as claimed: when a save fails the run ends with an error raised to
\* the caller, and the error report carries the count of matches saved.
C6_ErrorRaisedWithCount ==
    SaveFailed =>
        /\ raised /= "none"
        /\ "count" \in DOMAIN stdout[Len(stdout)]
        /\ stdout[Len(stdout)].count = count

\* C6 as amended: when a save fails the run writes a CRITICAL SAVE ERROR
\* line carrying the storage error, closes the connection and returns
\* normally: nothing is raised to the caller, no success line is written,
\* and the error line does not carry the count of matches saved.
C6_ErrorPrintedNotRaised ==
    SaveFailed =>
        /\ raised = "none"
        /\ connection = "closed"
        /\ stdout[Len(stdout)].line = "CRITICAL SAVE ERROR"
        /\ stdout[Len(stdout)].error \in StorageErrors
        /\ DOMAIN stdout[Len(stdout)] = {"line", "error"}

C6_Witness ==
    /\ SaveFailed
    /\ count = 3
    /\ stdout[Len(stdout)].error = "IntegrityError"

\* C10: every leg-1 match generated in round r (r = 0 .. N' - 2) is dated
\* start + 7 * r; every leg-2 match reverses its leg-1 match and is dated
\* (N' - 1) * 7 days after it, which is later than every leg-1 date.
C10_Dates ==
    [][/\ (pc = "leg1" /\ round_num' = round_num + 1) =>
              /\ round_num <= WorkingSize(num_actual_teams) - 2
              /\ \A i \in (Len(all_matches_to_save) + 1)
                              ..Len(all_matches_to_save') :
                     all_matches_to_save'[i].match_date
                         = start_date + 7 * round_num
       /\ (pc = "leg1" /\ pc' = "save") =>
              LET n1 == Len(all_matches_to_save)
                  all == all_matches_to_save'
              IN /\ round_num = WorkingSize(num_actual_teams) - 1
                 /\ SubSeq(all, 1, n1) = all_matches_to_save
                 /\ \A i \in 1..(Len(all) - n1) :
                       /\ all[n1 + i].match_date = all[i].match_date
                              + (WorkingSize(num_actual_teams) - 1) * 7
                       /\ \A j \in 1..n1 :
                              all[n1 + i].match_date > all[j].match_date
      ]_vars

C10_Witness ==
    /\ pc = "save"
    /\ num_actual_teams = 5
    /\ Len(all_matches_to_save) = 20
    /\ all_matches_to_save[10].match_date = start_date + 28
    /\ all_matches_to_save[11].match_date = start_date + 35

\* C11: with exactly two teams the generated list is the single match of
\* the first-listed team (lowest pk) at home against the other, dated at
\* the start date, with no return match; a run without a failed save adds
\* exactly that one row. With more than two teams a second leg exists: the
\* list is twice as long as leg 1 and holds matches dated after leg 1.
C11_NoReturnLegForTwo ==
    /\ (Generated /\ num_actual_teams = 2) =>
           /\ all_matches_to_save
                  = <<[home_team |-> 1, away_team |-> 2,
                       match_date |-> start_date, home_score |-> 0,
                       away_score |-> 0, is_played |-> FALSE]>>
           /\ Meetings(2, 1) = {}
           /\ (pc = "done" /\ ~SaveFailed) =>
                  /\ count = 1
                  /\ match_table = table_before \o all_matches_to_save
    /\ (Generated /\ num_actual_teams > 2) =>
           \E i \in DOMAIN all_matches_to_save :
               all_matches_to_save[i].match_date
                   >= start_date + 7 * (WorkingSize(num_actual_teams) - 1)

C11_Witness ==
    /\ pc = "done" /\ raised = "none" /\ ~SaveFailed
    /\ num_actual_teams = 2
    /\ team_table = {1, 2}
    /\ Len(match_table) = Len(table_before) + 1
    /\ match_table[Len(match_table)].home_team = 1
    /\ match_table[Len(match_table)].away_team = 2

---------------------------------------------------------------------------
(* Properties of the match table, checked under Spec *)

\* C3: every stored match has is_played true if and only if home_score > 0
\* or away_score > 0.
C3_IsPlayedIffScored ==
    \A pk \in DOMAIN match_table :
        match_table[pk].is_played
            <=> (match_table[pk].home_score > 0
                    \/ match_table[pk].away_score > 0)

---------------------------------------------------------------------------
(* Properties of get_standings, checked under SpecStandings *)

\* The row of team t in the result
RowOf(t) ==
    LET i == CHOOSE j \in DOMAIN standings.rows : standings.rows[j].team = t
    IN standings.rows[i]

\* Reference aggregates, over index sets of the match table: the played
\* matches with t at home, and those with t away (and not also at home)
HomeOf(t) ==
    {i \in DOMAIN match_table :
        match_table[i].is_played /\ match_table[i].home_team = t}

AwayOf(t) ==
    {i \in DOMAIN match_table :
        /\ match_table[i].is_played
        /\ match_table[i].away_team = t
        /\ match_table[i].home_team /= t}

RECURSIVE SumOver(_, _)
SumOver(I, field) ==
    IF I = {} THEN 0
    ELSE LET i == CHOOSE j \in I : TRUE
         IN match_table[i][field] + SumOver(I \ {i}, field)

RefRow(t) ==
    LET H == HomeOf(t)
        A == AwayOf(t)
        hs(i) == match_table[i].home_score
        as(i) == match_table[i].away_score
    IN [P  |-> Cardinality(H \cup A),
        W  |-> Cardinality({i \in H : hs(i) > as(i)})
                 + Cardinality({i \in A : as(i) > hs(i)}),
        D  |-> Cardinality({i \in H \cup A : hs(i) = as(i)}),
        L  |-> Cardinality({i \in H : hs(i) < as(i)})
                 + Cardinality({i \in A : as(i) < hs(i)}),
        GF |-> SumOver(H, "home_score") + SumOver(A, "away_score"),
        GA |-> SumOver(H, "away_score") + SumOver(A, "home_score")]

\* C7: the result has exactly one row per team; each row's P, W, D, L, GF
\* and GA are the reference aggregates over the matches flagged played in
\* which the team is home or away, goals taken from the team's side; a match
\* not flagged played counts for no row, and a team with no played match
\* has an all-zero row.
C7_RowsAreAggregates ==
    standings.called =>
        /\ Len(standings.rows) = Cardinality(team_table)
        /\ \A t \in team_table :
              /\ Cardinality({j \in DOMAIN standings.rows :
                                 standings.rows[j].team = t}) = 1
              /\ LET r == RowOf(t)
                     ref == RefRow(t)
                 IN /\ r.P = ref.P /\ r.W = ref.W /\ r.D = ref.D
                    /\ r.L = ref.L /\ r.GF = ref.GF /\ r.GA = ref.GA
                    /\ (HomeOf(t) \cup AwayOf(t) = {}) =>
                          r = [team |-> t, P |-> 0, W |-> 0, D |-> 0,
                               L |-> 0, GF |-> 0, GA |-> 0, GD |-> 0,
                               Pts |-> 0]

\* Team 1 beat team 2 away by 1-0 in a played match, another match with a
\* score is not flagged played, and team 3 has played nothing
C7_Witness ==
    /\ standings.called
    /\ team_table = {1, 2, 3}
    /\ Len(match_table) = 2
    /\ match_table[1] = [home_team |-> 2, away_team |-> 1,
                         match_date |-> start_date, home_score |-> 0,
                         away_score |-> 1, is_played |-> TRUE]
    /\ match_table[2].home_team = 3 /\ match_table[2].home_score = 1
    /\ ~match_table[2].is_played
    /\ RowOf(1).W = 1 /\ RowOf(1).GF = 1 /\ RowOf(2).L = 1 /\ RowOf(2).GA = 1
    /\ RowOf(3).P = 0

\* C8: every row has Pts = 3 * W + D, P = W + D + L and GD = GF - GA, also
\* when the table holds a match of a team against itself.
C8_RowLaws ==
    standings.called =>
        \A j \in DOMAIN standings.rows :
            LET r == standings.rows[j]
            IN /\ r.Pts = 3 * r.W + r.D
               /\ r.P = r.W + r.D + r.L
               /\ r.GD = r.GF - r.GA

\* A played match of team 1 against itself, and a second played match
C8_Witness ==
    /\ standings.called
    /\ \E i \in DOMAIN match_table :
          /\ match_table[i].is_played
          /\ match_table[i].home_team = 1
          /\ match_table[i].away_team = 1
          /\ match_table[i].home_score > match_table[i].away_score
    /\ RowOf(1).P = 2
    /\ RowOf(1).Pts = 4

\* C9: the rows are in descending order of (Pts, GD, GF), compared as
\* tuples; rows equal on all three are in the order their teams were read.
C9_SortedStable ==
    standings.called =>
        \A i \in DOMAIN standings.rows, j \in DOMAIN standings.rows :
            i < j =>
                LET x == standings.rows[i]
                    y == standings.rows[j]
                IN /\ x.Pts >= y.Pts
                   /\ x.Pts = y.Pts => x.GD >= y.GD
                   /\ (x.Pts = y.Pts /\ x.GD = y.GD) => x.GF >= y.GF
                   /\ (x.Pts = y.Pts /\ x.GD = y.GD /\ x.GF = y.GF)
                          => x.team < y.team

\* A row with more points and a lower goal difference stands before a row
\* of a team read earlier, and two rows tie on points and goal difference
C9_Witness ==
    /\ standings.called
    /\ Len(standings.rows) = 3
    /\ \E i \in 1..2 :
          /\ standings.rows[i].Pts > standings.rows[i + 1].Pts
          /\ standings.rows[i].GD < standings.rows[i + 1].GD
          /\ standings.rows[i].team > standings.rows[i + 1].team
    /\ \E i \in 1..2 :
          /\ standings.rows[i].Pts = standings.rows[i + 1].Pts
          /\ standings.rows[i].GD > standings.rows[i + 1].GD

===========================================================================
